---- MODULE Spec2Model ----
(***************************************************************************)
(* Hexagonal binning of latitude/longitude samples                         *)
(* (plotly/express/_hexbin_mapbox.py): _compute_hexbin and hexbin_mapbox.  *)
(*                                                                         *)
(* Numbers.  The code works on float64.  The inputs of the model are the   *)
(* longitudes of LonTable and the latitudes of LatTable, each the decimal  *)
(* text of a float64, and lattice densities that are powers of two.        *)
(*                                                                         *)
(* x.  With u = 425/8192, the longitudes of LonTable are floats whose      *)
(* projection lon*pi/180 is the float X*u/4 exactly, X the integer of the  *)
(* table.  On these floats xmax-xmin, Dx/nx, i*dx+xmin and their           *)
(* differences are exact, and a division whose quotient is a multiple of   *)
(* 1/4 is exact.  The model writes a planar x in units of u/4 and computes *)
(* with integers and fractions <<n, d>>.                                   *)
(*                                                                         *)
(* y.  With q = u*sqrt(3)/4 (the float dy/4 of a lattice of step dx = u),  *)
(* a latitude of LatTable projects to the float closest to (Y + B*eps)*q,  *)
(* eps = 1e-9, Y and B the integers of the table: B, rounded to the unit,  *)
(* is how far the projection of a latitude given to six decimals lies from *)
(* the lattice row Y, which is seven orders of magnitude above the         *)
(* rounding error of a float.  B = 0 for the latitude 0 and for the        *)
(* latitude whose projection is the float q itself.  The model writes a    *)
(* planar y as <<Y, B>> and computes to the first order in eps: two values *)
(* are compared on their integer parts and, when these are equal, on their *)
(* eps parts.  The y of a center is written <<n, e, d>>: (n + e*eps)/d.    *)
(*                                                                         *)
(* Rounding in the last place.  The y of a center is the float of          *)
(* c*dy + ymin, where dy = dx*sqrt(3) is itself rounded, so that two       *)
(* differences of consecutive y that are equal as real numbers may be one  *)
(* float or two.  Which of the two happens is the input fp of a call.      *)
(*                                                                         *)
(* NaN is <<0, 0>> (<<0, 0, 0>> for a y of a center), +inf and -inf are    *)
(* <<1, 0>> and <<-1, 0>>.  Python's None is <<>> and a value v that may   *)
(* be None is <<v>>.  An id, the decimal text of the two floats of a       *)
(* center, is written as the pair of the two floats.                       *)
(***************************************************************************)
EXTENDS Integers, Sequences, FiniteSets, TLC

\* ------------------------------------------------------------------ bounds
\* largest planar coordinate of a sample or of a bounding range, in lattice
\* steps u
MaxCoord == 3
\* largest number of samples in one call
MaxPts == 3
\* the lattice densities (nx, gridsize) are 1, 2, ..., 2^MaxNxLog
MaxNxLog == 1
\* largest number of samples in a call whose samples lie anywhere on the grid
MaxPair == 2

\* ------------------------------------------------------------------ values
None == <<>>
Some(v) == <<v>>
NaN == <<0, 0>>
NegInf == <<-1, 0>>

Abs(a) == IF a < 0 THEN -a ELSE a

RECURSIVE GCD(_, _)
GCD(a, b) == IF b = 0 THEN a ELSE GCD(b, a % b)

\* the float n/d (d > 0), in lowest terms
Rat(n, d) == LET g == GCD(Abs(n), d) IN <<n \div g, d \div g>>

\* the float (n + e*eps)/d (d > 0), in lowest terms
Dual(n, e, d) ==
    LET g == GCD(GCD(Abs(n), Abs(e)), d) IN <<n \div g, e \div g, d \div g>>

IsNaN(v) == v = NaN

\* v < w on floats; any comparison with NaN is False
FloatLess(v, w) ==
    IF IsNaN(v) \/ IsNaN(w) THEN FALSE
    ELSE IF v[2] = 0 THEN (w[2] = 0 /\ v[1] < w[1]) \/ (w[2] # 0 /\ v[1] < 0)
    ELSE IF w[2] = 0 THEN w[1] > 0
    ELSE v[1] * w[2] < w[1] * v[2]

\* v < w for v = <<n, e>> and w = <<m, f>>: n + e*eps < m + f*eps
DLess(v, w) == v[1] < w[1] \/ (v[1] = w[1] /\ v[2] < w[2])
DMin(v, w) == IF DLess(w, v) THEN w ELSE v
DMax(v, w) == IF DLess(v, w) THEN w ELSE v

\* numpy.round((n + e*eps)/d) for d > 0: to nearest, an exact half to the
\* even integer
NpRound(n, e, d) ==
    LET q == n \div d
        r == n - q * d
    IN  IF 2 * r < d THEN q
        ELSE IF 2 * r > d THEN q + 1
        ELSE IF e > 0 THEN q + 1
        ELSE IF e < 0 THEN q
        ELSE IF q % 2 = 0 THEN q ELSE q + 1

\* numpy.floor((n + e*eps)/d) for d > 0
NpFloor(n, e, d) ==
    LET q == n \div d
    IN  IF n = q * d /\ e < 0 THEN q - 1 ELSE q

RECURSIVE SeqSum(_)
SeqSum(s) == IF s = <<>> THEN 0 ELSE Head(s) + SeqSum(Tail(s))

RECURSIVE SeqMax(_)
SeqMax(s) == IF Len(s) = 1 THEN s[1]
             ELSE LET m == SeqMax(Tail(s)) IN IF s[1] > m THEN s[1] ELSE m

RECURSIVE SeqMin(_)
SeqMin(s) == IF Len(s) = 1 THEN s[1]
             ELSE LET m == SeqMin(Tail(s)) IN IF s[1] < m THEN s[1] ELSE m

\* ------------------------------------------------------------- projection
\* <<lon, X>>: the longitude lon (degrees) projects to x = lon*pi/180 = X*u/4;
\* in increasing order
LonTable ==
    << <<"0.0", 0>>,
       <<"0.7431245816973873", 1>>,
       <<"2.972498326789549", 4>>,
       <<"5.944996653579098", 8>>,
       <<"8.917494980368648", 12>>,
       <<"11.889993307158196", 16>>,
       <<"14.862491633947746", 20>>,
       <<"17.834989960737296", 24>>,
       <<"20.807488287526844", 28>>,
       <<"23.779986614316392", 32>> >>
\* <<lat, Y, B>>: the latitude lat (degrees) projects to
\* y = arctanh(sin(lat*pi/180)) = (Y + B*eps)*q; in increasing order
LatTable ==
    << <<"0.0", 0, 0>>,
       <<"1.2870212849548972", 1, 0>>,
       <<"5.141603", 4, -316>>,
       <<"10.24205", 8, -207>>,
       <<"15.261809", 12, 220>>,
       <<"20.164443", 16, 10>>,
       <<"24.917804", 20, -82>>,
       <<"29.494859", 24, 279>>,
       <<"33.874127", 28, -416>>,
       <<"38.039755", 32, 377>> >>

\* the place of a longitude or latitude in its table
Place(table, deg) == CHOOSE i \in 1..Len(table) : table[i][1] = deg

\* x = lon*pi/180 and y = arctanh(sin(lat*pi/180)): <<x, y>> with x an
\* integer (units of u/4) and y = <<Y, B>>
_project_latlon_to_wgs84(lat, lon) ==
    << LonTable[Place(LonTable, lon)][2],
       << LatTable[Place(LatTable, lat)][2], LatTable[Place(LatTable, lat)][3] >> >>

\* ------------------------------------------------------- _compute_hexbin
\* stages of _compute_hexbin, in program order: the lattice step, extents,
\* indexes and distances (lines 117-138), the accumulation arrays (140-191),
\* the centers (193-204), the scale, hexagons and ids (217-237).  An outcome
\* records the last stage that was completed
StageOrder == <<"none", "lattice_step", "accumulate", "centers", "return">>
StageNo(st) == CHOOSE k \in 1..Len(StageOrder) : StageOrder[k] = st
AggFuncs == {"mean", "sum", "max"}

\* the sequence f as an array: the same value, with every element evaluated once
NdArray(f) == f \o <<>>

\* a[mask] for a boolean mask
Mask(a, mask) ==
    LET kept == SelectSeq(NdArray([k \in 1..Len(a) |-> k]), LAMBDA k : mask[k])
    IN  NdArray([h \in 1..Len(kept) |-> a[kept[h]]])

\* bdist = (d1 < d2): True sends the point to the offset (rounded) lattice
Bdist_tie_to_offset(d1, d2) == ~DLess(d2, d1)
Bdist(d1, d2) == DLess(d1, d2)

\* in-array tests of c1 / c2 and of the value-mode loop
InLattice(ix, iy, nxk, nyk) == 0 <= ix /\ ix < nxk /\ 0 <= iy /\ iy < nyk

\* count mode: lattice[lattice < min_count] = nan, when min_count is given
CountDropped_le(count, min_count) ==
    min_count # None /\ ~FloatLess(min_count[1], count)
CountDropped(count, min_count) ==
    min_count # None /\ FloatLess(count, min_count[1])

\* value mode: len(vals) > min_count, with None read as 0
ValueKept_ge(n, min_count) ==
    LET mc == IF min_count = None THEN <<0, 1>> ELSE min_count[1]
    IN  ~FloatLess(<<n, 1>>, mc)
ValueKept(n, min_count) ==
    LET mc == IF min_count = None THEN <<0, 1>> ELSE min_count[1]
    IN  FloatLess(mc, <<n, 1>>)

\* agg_func(vals) for the numpy reductions mean, sum and max; max of an
\* empty list raises and is handled where it is called
AggFunc(agg_func, vals) ==
    IF agg_func = "mean"
      THEN (IF vals = <<>> THEN NaN ELSE Rat(SeqSum(vals), Len(vals)))
    ELSE IF agg_func = "sum" THEN <<SeqSum(vals), 1>>
    ELSE IF vals = <<>> THEN NaN ELSE <<SeqMax(vals), 1>>

\* twice the lattice index of the k-th row of centers (k from 1): rows
\* 1..nx1*ny1 are the offset lattice in ravel order, the rest the base lattice
CenterIndex2_swapped(k, nx1, ny1, nx2, ny2) ==
    IF k <= nx1 * ny1
      THEN << 2 * ((k - 1) % nx1), 2 * ((k - 1) \div nx1) >>
      ELSE << 2 * ((k - nx1 * ny1 - 1) % nx2) + 1,
              2 * ((k - nx1 * ny1 - 1) \div nx2) + 1 >>
CenterIndex2(k, nx1, ny1, nx2, ny2) ==
    IF k <= nx1 * ny1
      THEN << 2 * ((k - 1) \div ny1), 2 * ((k - 1) % ny1) >>
      ELSE << 2 * ((k - nx1 * ny1 - 1) \div ny2) + 1,
              2 * ((k - nx1 * ny1 - 1) % ny2) + 1 >>

\* sorted(list(set(np.diff(sorted(v)))))[1] for a list v of coordinates given
\* as integers: <<>> when the index is out of range, else <<the element>>.
\* fp tells whether the floats of the least difference, when it is not zero
\* and occurs more than once, came out as more than one float: the second
\* element of the sorted set is then the least difference again
SecondDiff_positive(v, fp) ==
    LET sv == SortSeq(v, <)
        df == NdArray([k \in 1..(Len(sv) - 1) |-> sv[k + 1] - sv[k]])
        ds == {df[k] : k \in 1..Len(df)} \ {0}
    IN  IF ds = {} THEN None
        ELSE LET lo == CHOOSE a \in ds : \A b \in ds : a <= b
             IN  IF fp /\ lo # 0 /\ Cardinality({k \in 1..Len(df) : df[k] = lo}) >= 2
                   THEN Some(lo)
                 ELSE IF Cardinality(ds) < 2 THEN None
                 ELSE Some(CHOOSE a \in ds \ {lo} : \A b \in ds \ {lo} : a <= b)
SecondDiff(v, fp) ==
    LET sv == SortSeq(v, <)
        df == NdArray([k \in 1..(Len(sv) - 1) |-> sv[k + 1] - sv[k]])
        ds == {df[k] : k \in 1..Len(df)}
    IN  IF ds = {} THEN None
        ELSE LET lo == CHOOSE a \in ds : \A b \in ds : a <= b
             IN  IF fp /\ lo # 0 /\ Cardinality({k \in 1..Len(df) : df[k] = lo}) >= 2
                   THEN Some(lo)
                 ELSE IF Cardinality(ds) < 2 THEN None
                 ELSE Some(CHOOSE a \in ds \ {lo} : \A b \in ds \ {lo} : a <= b)

\* the unit hexagon hx, hy in halves and in multiples of 1/(2*sqrt(3))
hx2 == <<0, 1, 1, 0, -1, -1>>
hy2 == <<-2, -1, 1, 2, 1, -1>>

\* what a call leaves behind when it raises after stage st
Raised(exc, st, base) == [base EXCEPT !.status = exc, !.reached = st]

NoResult ==
    [status |-> "none", reached |-> "none",
     xmin |-> 0, xmax |-> 0, ymin |-> <<0, 0>>, ymax |-> <<0, 0>>, ny |-> 0,
     x |-> <<>>, y |-> <<>>,
     ix1 |-> <<>>, iy1 |-> <<>>, ix2 |-> <<>>, iy2 |-> <<>>,
     d1 |-> <<>>, d2 |-> <<>>, bdist |-> <<>>,
     lattice1 |-> <<>>, lattice2 |-> <<>>,
     accum |-> <<>>, good_idxs |-> <<>>, agreggated_value |-> <<>>,
     centers |-> <<>>, dxh |-> None, dyh |-> None,
     hex_nx |-> None, hex_ny |-> None,
     hxs |-> <<>>, hys |-> <<>>, hexagons_ids |-> <<>>]

\* a.min(), a.max() of line 106 (108, 287, 288) for an array of longitudes or
\* latitudes of a table: only called on a non-empty array
ArrayRange(table, a) ==
    LET places == NdArray([k \in 1..Len(a) |-> Place(table, a[k])])
    IN  <<table[SeqMin(places)][1], table[SeqMax(places)][1]>>

\* indexes of the points whose mask is True and whose cell is <<i, j>>, in order
Members(n, mask, ix, iy, i, j) ==
    SelectSeq(NdArray([k \in 1..n |-> k]), LAMBDA k : mask[k] /\ ix[k] = i /\ iy[k] = j)

\* lattice.ravel(): row-major, cell <<i, j>> of an (nxk, nyk) array at i*nyk + j
Ravel(lattice, nxk, nyk) ==
    NdArray([k \in 1..(nxk * nyk) |-> lattice[<<(k - 1) \div nyk, (k - 1) % nyk>>]])

\* the smaller and the larger of two numbers (x_range.min(), x_range.max())
Min2(v, w) == IF v < w THEN v ELSE w
Max2(v, w) == IF v < w THEN w ELSE v
Sq(v) == v * v

\* a stage leaves a call that has already raised as it is
Running(r) == r.status = "none"

\* 105-115: the bounding range, from the arguments or from the data
bounding_range(a) ==
    IF (a.lat_range = None \/ a.lon_range = None) /\ Len(a.lat) = 0
      THEN Raised("ValueError", "none", NoResult)
    ELSE
    LET lat_rng == IF a.lat_range = None THEN ArrayRange(LatTable, a.lat)
                   ELSE a.lat_range[1]
        lon_rng == IF a.lon_range = None THEN ArrayRange(LonTable, a.lon)
                   ELSE a.lon_range[1]
        c_lo == _project_latlon_to_wgs84(lat_rng[1], lon_rng[1])
        c_hi == _project_latlon_to_wgs84(lat_rng[2], lon_rng[2])
    IN  [NoResult EXCEPT !.xmin = Min2(c_lo[1], c_hi[1]), !.xmax = Max2(c_lo[1], c_hi[1]),
                         !.ymin = DMin(c_lo[2], c_hi[2]), !.ymax = DMax(c_lo[2], c_hi[2])]

\* 103 and 117-128: dx = Dx/nx and dy = dx*sqrt(3), so Dy/dy = DY*nx/DX; the
\* normalised coordinates x = (x-xmin)/dx and y = (y-ymin)/dy are kept as
\* their numerators over DX = xmax - xmin: an integer for x, <<n, e>> for y
lattice_step(a, r) ==
    IF ~Running(r) THEN r ELSE
    LET DX == r.xmax - r.xmin
        p == NdArray([k \in 1..Len(a.lat) |-> _project_latlon_to_wgs84(a.lat[k], a.lon[k])])
        x == NdArray([k \in 1..Len(p) |-> (p[k][1] - r.xmin) * a.nx])
        y == NdArray([k \in 1..Len(p) |->
               <<(p[k][2][1] - r.ymin[1]) * a.nx, (p[k][2][2] - r.ymin[2]) * a.nx>>])
    IN  [r EXCEPT !.ny = NpRound((r.ymax[1] - r.ymin[1]) * a.nx,
                                 (r.ymax[2] - r.ymin[2]) * a.nx, DX),
                  !.x = x, !.y = y,
                  !.ix1 = NdArray([k \in 1..Len(x) |-> NpRound(x[k], 0, DX)]),
                  !.iy1 = NdArray([k \in 1..Len(y) |-> NpRound(y[k][1], y[k][2], DX)]),
                  !.ix2 = NdArray([k \in 1..Len(x) |-> NpFloor(x[k], 0, DX)]),
                  !.iy2 = NdArray([k \in 1..Len(y) |-> NpFloor(y[k][1], y[k][2], DX)])]

\* (x - ix)**2 + 3.0*(y - iy)**2 times (2*DX)^2, for x - ix = xn/(2*DX) and
\* y - iy = (yn + ye*eps)/(2*DX): <<n, e>>, to the first order in eps
Dist(xn, yn, ye) == <<Sq(xn) + 3 * Sq(yn), 6 * yn * ye>>

\* 136-138: d1, d2 and bdist
distances(r) ==
    IF ~Running(r) THEN r ELSE
    LET DX == r.xmax - r.xmin
        d1 == NdArray([k \in 1..Len(r.x) |->
                 Dist(2 * r.x[k] - 2 * DX * r.ix1[k],
                      2 * r.y[k][1] - 2 * DX * r.iy1[k], 2 * r.y[k][2])])
        d2 == NdArray([k \in 1..Len(r.x) |->
                 Dist(2 * r.x[k] - 2 * DX * r.ix2[k] - DX,
                      2 * r.y[k][1] - 2 * DX * r.iy2[k] - DX, 2 * r.y[k][2])])
    IN  [r EXCEPT !.d1 = d1, !.d2 = d2,
                  !.bdist = NdArray([k \in 1..Len(d1) |-> Bdist(d1[k], d2[k])]),
                  !.reached = "lattice_step"]

\* 140-146 and 156-172: the samples (by index) counted or collected in each
\* cell of the offset lattice (nx1 x ny1) and of the base lattice (nx2 x ny2)
collect(a, r) ==
    IF ~Running(r) THEN r
    \* 141-142, 157-161: numpy refuses an array with a negative dimension
    ELSE IF a.nx + 1 < 0 \/ r.ny + 1 < 0 \/ a.nx < 0 \/ r.ny < 0
      THEN Raised("ValueError", "lattice_step", r)
    ELSE
    LET c1 == NdArray([k \in 1..Len(r.x) |->
                 InLattice(r.ix1[k], r.iy1[k], a.nx + 1, r.ny + 1) /\ r.bdist[k]])
        c2 == NdArray([k \in 1..Len(r.x) |->
                 InLattice(r.ix2[k], r.iy2[k], a.nx, r.ny) /\ ~r.bdist[k]])
    IN  [r EXCEPT
           !.lattice1 = [c \in (0..a.nx) \X (0..r.ny) |->
                           Members(Len(r.x), c1, r.ix1, r.iy1, c[1], c[2])],
           !.lattice2 = [c \in (0..(a.nx - 1)) \X (0..(r.ny - 1)) |->
                           Members(Len(r.x), c2, r.ix2, r.iy2, c[1], c[2])]]

\* 147-149: the count of a cell after lattice[lattice < min_count] = nan
CountCell(m, min_count) ==
    IF CountDropped(<<Len(m), 1>>, min_count) THEN NaN ELSE <<Len(m), 1>>
\* 174-187: agg_func of the values of a cell, or nan
ValueCell(m, color, agg_func, min_count) ==
    IF ValueKept(Len(m), min_count)
      THEN AggFunc(agg_func, [k \in 1..Len(m) |-> color[m[k]]])
      ELSE NaN
CellValue(a, m) ==
    IF a.color = None THEN CountCell(m, a.min_count)
    ELSE ValueCell(m, a.color[1], a.agg_func, a.min_count)

\* 147-151 and 174-191: accum and good_idxs
accumulate(a, r) ==
    IF ~Running(r) THEN r
    \* numpy.max of an empty list raises (line 178 or 185)
    ELSE IF /\ a.color # None /\ a.agg_func = "max" /\ ValueKept(0, a.min_count)
            /\ \/ \E c \in DOMAIN r.lattice1 : r.lattice1[c] = <<>>
               \/ \E c \in DOMAIN r.lattice2 : r.lattice2[c] = <<>>
      THEN Raised("ValueError", "lattice_step", r)
    ELSE
    LET accum ==
          Ravel([c \in DOMAIN r.lattice1 |-> CellValue(a, r.lattice1[c])], a.nx + 1, r.ny + 1)
          \o Ravel([c \in DOMAIN r.lattice2 |-> CellValue(a, r.lattice2[c])], a.nx, r.ny)
    IN  [r EXCEPT !.accum = accum,
                  !.good_idxs = NdArray([k \in 1..Len(accum) |-> ~IsNaN(accum[k])]),
                  !.reached = "accumulate"]

\* 195-199: the rows of centers before scaling, doubled
LatticeCenters(a, r) ==
    NdArray([k \in 1..Len(r.accum) |-> CenterIndex2(k, a.nx + 1, r.ny + 1, a.nx, r.ny)])

\* 193-204: the surviving aggregates and centers; the x of a center is
\* (c*DX + 2*nx*xmin)/(2*nx) and its y (c*DX + 2*nx*ymin)/(2*nx), both NaN
\* when dx is infinite (nx = 0)
centers_of(a, r) ==
    IF ~Running(r) THEN r ELSE
    LET DX == r.xmax - r.xmin
        cidx == LatticeCenters(a, r)
    IN  [r EXCEPT
           !.agreggated_value = Mask(r.accum, r.good_idxs),
           !.centers =
              Mask(NdArray([k \in 1..Len(cidx) |->
                      IF a.nx = 0 THEN <<NaN, <<0, 0, 0>> >>
                      ELSE << Rat(cidx[k][1] * DX + 2 * a.nx * r.xmin, 2 * a.nx),
                              Dual(cidx[k][2] * DX + 2 * a.nx * r.ymin[1],
                                   2 * a.nx * r.ymin[2], 2 * a.nx) >>]),
                   r.good_idxs),
           !.reached = "centers"]

\* 223-237 once the scale dxh, dyh (over 2*nx) is known: nx = dxh*2 and
\* ny = 2/3*dyh/(0.5/cos(pi/6)) = 2*dyh/sqrt(3); vertex k of hexagon h has x
\* over 2*nx and y over 6*nx (these fractions are left unreduced); the id is
\* the pair of center coordinates printed as text
Hexagons(a, r, cnum, dxh, dyh) ==
    IF dxh = None \/ dyh = None THEN Raised("IndexError", "centers", r)
    ELSE
    [r EXCEPT
       !.status = "ok", !.reached = "return",
       !.dxh = Some(Rat(dxh[1], 2 * a.nx)), !.dyh = Some(Rat(dyh[1], 2 * a.nx)),
       !.hex_nx = Some(Rat(2 * dxh[1], 2 * a.nx)),
       !.hex_ny = Some(Rat(2 * dyh[1], 2 * a.nx)),
       !.hxs = [h \in 1..Len(cnum) |-> [k \in 1..6 |->
                  <<hx2[k] * dxh[1] + cnum[h][1] * (r.xmax - r.xmin) + 2 * a.nx * r.xmin,
                    2 * a.nx>>]],
       !.hys = [h \in 1..Len(cnum) |-> [k \in 1..6 |->
                  <<hy2[k] * dyh[1]
                      + 3 * (cnum[h][2] * (r.xmax - r.xmin) + 2 * a.nx * r.ymin[1]),
                    6 * a.nx * r.ymin[2],
                    6 * a.nx>>]],
       !.hexagons_ids = r.centers]

\* 221-222, on the numerators cidx*DX (the common offset cancels in a
\* difference); with nx = 0 the one center is NaN and there is no difference
Scale(a, r, cnum, ax, fp) ==
    IF a.nx = 0 THEN None
    ELSE SecondDiff([k \in 1..Len(cnum) |-> cnum[k][ax] * (r.xmax - r.xmin)], fp)

\* 217-237: the x of the centers are exact floats, the y are rounded ones
ScaledHexagons(a, r, cnum, fp) ==
    Hexagons(a, r, cnum, Scale(a, r, cnum, 1, FALSE), Scale(a, r, cnum, 2, fp))
hexagons(a, r, fp) ==
    IF ~Running(r) THEN r
    ELSE ScaledHexagons(a, r, Mask(LatticeCenters(a, r), r.good_idxs), fp)

Arguments(lat, lon, lat_range, lon_range, color, nx, agg_func, min_count) ==
    [lat |-> lat, lon |-> lon, lat_range |-> lat_range, lon_range |-> lon_range,
     color |-> color, nx |-> nx, agg_func |-> agg_func, min_count |-> min_count]

hexbin_of(a, fp) ==
    hexagons(a, centers_of(a, accumulate(a, collect(a,
        distances(lattice_step(a, bounding_range(a)))))), fp)

\* fp: whether equal differences of the y of the centers of this call came
\* out as different floats
_compute_hexbin(lat, lon, lat_range, lon_range, color, nx, agg_func, min_count, fp) ==
    hexbin_of(Arguments(lat, lon, lat_range, lon_range, color, nx, agg_func, min_count), fp)

\* -------------------------------------------------- _hexagons_to_geojson
\* one feature per hexagon: its id and the closed ring of its vertices (the
\* first vertex repeated); ids = None numbers the features from 0
_hexagons_to_geojson(hexagons_lats, hexagons_lons, ids) ==
    LET idx == IF ids = None THEN [h \in 1..Len(hexagons_lats) |-> h - 1] ELSE ids[1]
        m == IF Len(hexagons_lats) < Len(idx) THEN Len(hexagons_lats) ELSE Len(idx)
    IN  [type |-> "FeatureCollection",
         features |->
           NdArray([h \in 1..m |->
              LET points == [k \in 1..6 |-> <<hexagons_lons[h][k], hexagons_lats[h][k]>>]
              IN  [type |-> "Feature", id |-> idx[h],
                   coordinates |-> Append(points, points[1])]])]

\* --------------------------------------------------------- hexbin_mapbox
\* the bounding range and the density handed to every group's call
GroupRange(rng) == Some(rng)
GroupDensity_finer(gridsize) == gridsize + 1
GroupDensity(gridsize) == gridsize

\* the column restricted to the rows of index
Loc(column, index) == NdArray([k \in 1..Len(index) |-> column[index[k]]])

NoFigure ==
    [status |-> "none", reached |-> "none", lat_range |-> <<>>, lon_range |-> <<>>,
     geometry |-> NoResult, geojson |-> <<>>, groups |-> <<>>,
     agg_data_frame |-> <<>>, range_color |-> <<>>]

\* data_frame is the record of the columns lat, lon, color and frame; color
\* and animation_frame tell whether the caller named those columns
\* 287-301: the bounding range of the whole data frame, the geometry pass over
\* it and the polygon collection (the hexagons are kept in planar
\* coordinates: hys for lats, hxs for lons)
GeometryOutcome(lat_range, lon_range, geometry) ==
    IF geometry.status # "ok"
      THEN [NoFigure EXCEPT !.lat_range = lat_range, !.lon_range = lon_range,
                            !.geometry = geometry,
                            !.status = geometry.status, !.reached = "geometry"]
      ELSE [NoFigure EXCEPT !.lat_range = lat_range, !.lon_range = lon_range,
                            !.geometry = geometry,
                            !.geojson = _hexagons_to_geojson(geometry.hys, geometry.hxs,
                                                             Some(geometry.hexagons_ids)),
                            !.reached = "geometry"]
geometry_pass(data_frame, gridsize, agg, fp) ==
    GeometryOutcome(ArrayRange(LatTable, data_frame.lat), ArrayRange(LonTable, data_frame.lon),
                    _compute_hexbin(data_frame.lat, data_frame.lon,
                                    Some(ArrayRange(LatTable, data_frame.lat)),
                                    Some(ArrayRange(LonTable, data_frame.lon)),
                                    None, gridsize, agg, Some(NegInf), fp))

\* 317-320: the groups as <<key, index>>, the keys in increasing order
Groups(data_frame, animation_frame) ==
    IF ~animation_frame
      THEN << <<0, NdArray([k \in 1..Len(data_frame.lat) |-> k])>> >>
    ELSE
    LET keys == SortSeq(data_frame.frame, <)
        first == SelectSeq(NdArray([k \in 1..Len(keys) |->
                              <<keys[k], k = 1 \/ keys[k - 1] # keys[k]>>]),
                           LAMBDA e : e[2])
    IN  NdArray([g \in 1..Len(first) |->
           <<first[g][1],
             SelectSeq(NdArray([k \in 1..Len(data_frame.lat) |-> k]),
                       LAMBDA k : data_frame.frame[k] = first[g][1])>>])

\* 324-334: the call for one group; its hexagons are discarded (325)
GroupCall(data_frame, color, gridsize, agg, f, index, fp) ==
    [_compute_hexbin(Loc(data_frame.lat, index), Loc(data_frame.lon, index),
                     GroupRange(f.lat_range), GroupRange(f.lon_range),
                     IF color THEN Some(Loc(data_frame.color, index)) ELSE None,
                     GroupDensity(gridsize), agg, None, fp)
       EXCEPT !.hxs = <<>>, !.hys = <<>>]

\* 322-340: the loop stops at the first group whose call raises
GroupOutcome(f, calls) ==
    IF \E g \in 1..Len(calls) : calls[g].ret.status # "ok"
      THEN LET g == CHOOSE q \in 1..Len(calls) :
                      /\ calls[q].ret.status # "ok"
                      /\ \A h \in 1..(q - 1) : calls[h].ret.status = "ok"
           IN  [f EXCEPT !.status = calls[g].ret.status, !.reached = "group",
                         !.groups = SubSeq(calls, 1, g)]
      ELSE [f EXCEPT !.groups = calls, !.reached = "group"]
\* fp[1 + g] is the fp of the call for the g-th group
group_passes(data_frame, color, gridsize, agg, f, groups, fp) ==
    IF f.status # "none" THEN f
    ELSE GroupOutcome(f, NdArray([g \in 1..Len(groups) |->
            [frame |-> groups[g][1],
             ret |-> GroupCall(data_frame, color, gridsize, agg, f, groups[g][2],
                               fp[1 + g])]]))

\* 335-345: the rows of the consolidated table
RECURSIVE Concat(_)
Concat(tables) == IF tables = <<>> THEN <<>> ELSE Head(tables) \o Concat(Tail(tables))
GroupRows(call) ==
    NdArray([h \in 1..Len(call.ret.hexagons_ids) |->
       [frame |-> call.frame,
        locations |-> call.ret.hexagons_ids[h],
        color |-> call.ret.agreggated_value[h]]])
\* 347-351
RangeColor(table) ==
    << table[CHOOSE r \in 1..Len(table) : \A q \in 1..Len(table) :
                ~FloatLess(table[q].color, table[r].color)].color,
       table[CHOOSE r \in 1..Len(table) : \A q \in 1..Len(table) :
                ~FloatLess(table[r].color, table[q].color)].color >>
Consolidated(f, table) ==
    [f EXCEPT !.status = "ok", !.reached = "return",
              !.agg_data_frame = table, !.range_color = RangeColor(table)]
consolidate(f) ==
    IF f.status # "none" THEN f
    ELSE Consolidated(f, Concat(NdArray([g \in 1..Len(f.groups) |-> GroupRows(f.groups[g])])))

\* numpy.mean when agg_func is None (284-285)
AggOrMean(agg_func) == IF agg_func = None THEN "mean" ELSE agg_func[1]

\* the zoom and center of 303-315 and the plotting call of 353-376 take no part
\* in the table, the polygon collection or the outcome recorded here; fp[1]
\* is the fp of the geometry pass
hexbin_mapbox(data_frame, color, gridsize, agg_func, animation_frame, fp) ==
    consolidate(group_passes(data_frame, color, gridsize, AggOrMean(agg_func),
                             geometry_pass(data_frame, gridsize, AggOrMean(agg_func), fp[1]),
                             Groups(data_frame, animation_frame), fp))

\* ------------------------------------------------------------ the inputs
\* planar coordinates of the lattice rows and columns, in units of u/4 and q
Coord == {4 * c : c \in 0..MaxCoord}
LonOf(X) == LonTable[CHOOSE i \in 1..Len(LonTable) : LonTable[i][2] = X][1]
LatOf(Y) == LatTable[CHOOSE i \in 1..Len(LatTable) : LatTable[i][2] = Y][1]

RECURSIVE Pow2(_)
Pow2(k) == IF k = 0 THEN 1 ELSE 2 * Pow2(k - 1)
Densities == {Pow2(k) : k \in 0..MaxNxLog}

\* sample arrays: up to n positions, listed in increasing order of (X, Y);
\* the color of the k-th sample is Colors[k]
Colors == <<1, 2, 4, 8, 16, 32, 64, 128, 256, 512, 1024, 2048>>
PosNo(p) == p[1] * (4 * MaxCoord + 1) + p[2]
RECURSIVE SortedArrays(_, _)
SortedArrays(P, n) ==
    IF n = 0 THEN {<<>>}
    ELSE LET shorter == SortedArrays(P, n - 1)
             longest == {b \in shorter : Len(b) = n - 1}
         IN  shorter \cup
             UNION {{Append(a, p) :
                       p \in {q \in P : a = <<>> \/ PosNo(a[Len(a)]) <= PosNo(q)}} :
                    a \in longest}
SortedPosArrays(n) == SortedArrays(Coord \X Coord, n)

VARIABLES pc, args, ret
vars == <<pc, args, ret>>

ComputeArgs(pos, xr, yr, color, nx, agg_func, min_count) ==
    [fn |-> "_compute_hexbin",
     lat |-> [k \in 1..Len(pos) |-> LatOf(pos[k][2])],
     lon |-> [k \in 1..Len(pos) |-> LonOf(pos[k][1])],
     lat_range |-> IF yr = None THEN None ELSE Some(<<LatOf(yr[1][1]), LatOf(yr[1][2])>>),
     lon_range |-> IF xr = None THEN None ELSE Some(<<LonOf(xr[1][1]), LonOf(xr[1][2])>>),
     color |-> IF color THEN Some(SubSeq(Colors, 1, Len(pos))) ELSE None,
     nx |-> nx, agg_func |-> agg_func, min_count |-> min_count]

\* the whole grid as a bounding range
FullRange == Some(<<0, 4 * MaxCoord>>)
\* bounding ranges with a positive extent in x and any extent in y
XRanges == {Some(p) : p \in {q \in Coord \X Coord : q[1] < q[2]}}
YRanges == {Some(p) : p \in {q \in Coord \X Coord : q[1] <= q[2]}}

\* samples on the diagonal of the grid
Diagonal == {<<c, c>> : c \in Coord}
DiagArrays(n) == SortedArrays(Diagonal, n)
\* the diagonal and the position above the origin, which shares its longitude
Staircase == Diagonal \cup {<<0, 4>>}
\* a call that leaves the ranges to the data needs two distinct longitudes
HasExtent(a) == \E k \in 1..Len(a) : a[k][1] # a[1][1]

MinCounts == {None, Some(NegInf)} \cup {Some(<<k, 1>>) : k \in 0..MaxPts}

\* the corners of the first lattice cell and the point a quarter of a step in
\* from its origin, whose normalised coordinates are exact floats
Quarter == {0, 1, 4} \X {0, 1, 4}

\* Family 1: one sample or none, any bounding range, the densities -1, 0, 1
InitSingle ==
    \E pos \in SortedPosArrays(1), xr \in XRanges, yr \in YRanges, nx \in (-1)..1,
       mode \in {<<FALSE, Some(NegInf)>>} :
      args = ComputeArgs(pos, xr, yr, mode[1], nx, "mean", mode[2])

\* Family 2: up to MaxPair samples anywhere on the grid, binned over the
\* whole grid at the finest density in the configurations hexbin_mapbox uses
InitPair ==
    \E pos \in SortedPosArrays(MaxPair), nx \in {Pow2(MaxNxLog)},
       mode \in {<<FALSE, Some(NegInf)>>, <<TRUE, None>>} :
      args = ComputeArgs(pos, FullRange, FullRange, mode[1], nx, "mean", mode[2])

\* Family 3: up to MaxPts samples on the diagonal or above the origin, over
\* the whole grid or over the range of the data: counts and means at every
\* density under every min_count, sums and maxima at density 1 under the
\* min_count values that keep or drop an empty cell
InitDiag ==
    \E pos \in SortedArrays(Staircase, MaxPts), rng \in {None, FullRange}, nx \in Densities,
       color \in BOOLEAN, agg_func \in AggFuncs, min_count \in MinCounts :
      /\ rng = None => (pos = <<>> \/ HasExtent(pos))
      /\ ~color => agg_func = "mean"
      /\ agg_func # "mean" => (nx = 1 /\ min_count \in {None, Some(NegInf), Some(<<0, 1>>)})
      /\ args = ComputeArgs(pos, rng, rng, color, nx, agg_func, min_count)

\* Family 4: up to MaxPair samples among the corners of the first lattice
\* cell and its quarter point, binned over that cell in the configurations
\* hexbin_mapbox uses
InitQuarter ==
    \E pos \in SortedArrays(Quarter, MaxPair), nx \in Densities,
       mode \in {<<FALSE, Some(NegInf)>>, <<TRUE, None>>} :
      args = ComputeArgs(pos, Some(<<0, 4>>), Some(<<0, 4>>), mode[1], nx, "mean", mode[2])

\* a data frame: the samples of frame 1 followed by those of frame 2
DataFrame(pos1, pos2) ==
    LET pos == pos1 \o pos2
    IN  [lat |-> [k \in 1..Len(pos) |-> LatOf(pos[k][2])],
         lon |-> [k \in 1..Len(pos) |-> LonOf(pos[k][1])],
         color |-> SubSeq(Colors, 1, Len(pos)),
         frame |-> [k \in 1..Len(pos) |-> IF k <= Len(pos1) THEN 1 ELSE 2]]

MapboxArgs(pos1, pos2, color, gridsize, agg_func, animation_frame) ==
    [fn |-> "hexbin_mapbox", data_frame |-> DataFrame(pos1, pos2), color |-> color,
     gridsize |-> gridsize, agg_func |-> agg_func, animation_frame |-> animation_frame]

\* the arrays of SortedArrays(P, n) without repeated positions
IsSetArray(a) == \A k \in 1..(Len(a) - 1) : a[k] # a[k + 1]

\* Family 5: one group of up to MaxPair samples anywhere on the grid, the
\* first of them at the origin, at the densities -1, 0, 1
InitFigureOne ==
    \E pos \in SortedPosArrays(MaxPair), gridsize \in (-1)..1,
       color \in BOOLEAN :
      /\ HasExtent(pos)
      /\ pos[1] = <<0, 0>>
      /\ args = MapboxArgs(pos, <<>>, color, gridsize, None, FALSE)

\* Family 6: two animation frames at the finest density, each a set of
\* samples on the diagonal, the second of up to MaxPts samples; the first
\* frame holds the origin and the second the far corner
InitFigureFrames ==
    \E pos1 \in DiagArrays(MaxCoord + 1), pos2 \in DiagArrays(MaxPts),
       gridsize \in {Pow2(MaxNxLog)}, color \in BOOLEAN, agg_func \in {None, Some("sum")} :
      /\ IsSetArray(pos1) /\ IsSetArray(pos2)
      /\ ~color => agg_func = None
      /\ pos1 # <<>> /\ pos2 # <<>>
      /\ pos1[1] = <<0, 0>> /\ pos2[Len(pos2)] = <<4 * MaxCoord, 4 * MaxCoord>>
      /\ args = MapboxArgs(pos1, pos2, color, gridsize, agg_func, TRUE)

\* the rounding of the calls of one figure: of the geometry pass and of the
\* pass of each group
FpChoices(animation_frame) == [1..(IF animation_frame THEN 3 ELSE 2) -> BOOLEAN]

InitFigure ==
    /\ pc = "call"
    /\ ret = NoFigure
    /\ (InitFigureOne \/ InitFigureFrames)

call_hexbin_mapbox ==
    /\ pc = "call"
    /\ args.fn = "hexbin_mapbox"
    /\ \E fp \in FpChoices(args.animation_frame) :
         ret' = hexbin_mapbox(args.data_frame, args.color, args.gridsize,
                              args.agg_func, args.animation_frame, fp)
    /\ pc' = "return"
    /\ UNCHANGED args

NextFigure == call_hexbin_mapbox

SpecFigure == InitFigure /\ [][NextFigure]_vars

Init ==
    /\ pc = "call"
    /\ ret = NoResult
    /\ (InitSingle \/ InitPair \/ InitDiag \/ InitQuarter)

call_compute_hexbin ==
    /\ pc = "call"
    /\ args.fn = "_compute_hexbin"
    /\ \E fp \in BOOLEAN :
         ret' = _compute_hexbin(args.lat, args.lon, args.lat_range, args.lon_range,
                                args.color, args.nx, args.agg_func, args.min_count, fp)
    /\ pc' = "return"
    /\ UNCHANGED args

Next == call_compute_hexbin

Spec == Init /\ [][Next]_vars

\* ================================================================ claims
Returned == pc = "return"
AtLeast(r, st) == StageNo(r.reached) >= StageNo(st)

\* the cells of a call's two lattices: <<1, i, j>> is cell (i, j) of the offset
\* lattice, <<2, i, j>> cell (i, j) of the base lattice
CellSet(r, nx) ==
    {<<1, i, j>> : i \in 0..nx, j \in 0..r.ny} \cup
    {<<2, i, j>> : i \in 0..(nx - 1), j \in 0..(r.ny - 1)}
\* the cell behind position k of accum and good_idxs
CellAt(r, nx, k) ==
    IF k <= (nx + 1) * (r.ny + 1)
      THEN <<1, (k - 1) \div (r.ny + 1), (k - 1) % (r.ny + 1)>>
      ELSE <<2, (k - (nx + 1) * (r.ny + 1) - 1) \div r.ny,
                (k - (nx + 1) * (r.ny + 1) - 1) % r.ny>>
\* the samples (by index) that were counted or collected in a cell
MembersOf(r, cell) ==
    IF cell[1] = 1 THEN r.lattice1[<<cell[2], cell[3]>>]
    ELSE r.lattice2[<<cell[2], cell[3]>>]
IsMember(r, cell, k) == \E j \in 1..Len(MembersOf(r, cell)) : MembersOf(r, cell)[j] = k

\* ---------------------------------------------------------------- C1
PlanarOf(k) == _project_latlon_to_wgs84(args.lat[k], args.lon[k])
InBoundingRange(k) ==
    /\ ret.xmin <= PlanarOf(k)[1] /\ PlanarOf(k)[1] <= ret.xmax
    /\ ~DLess(PlanarOf(k)[2], ret.ymin) /\ ~DLess(ret.ymax, PlanarOf(k)[2])
SumOfCounts == SeqSum([h \in 1..Len(ret.agreggated_value) |-> ret.agreggated_value[h][1]])

\* C1: in count mode with min_count = -inf and nx >= 1, the counts of the
\* emitted bins add up to the number of samples inside the bounding range
\* (boundaries included).
C1_Conservation ==
    (/\ Returned /\ ret.status = "ok"
     /\ args.color = None /\ args.min_count = Some(NegInf) /\ args.nx >= 1)
    => SumOfCounts = Cardinality({k \in 1..Len(args.lat) : InBoundingRange(k)})

\* ---------------------------------------------------------------- C2
\* squared distances d = (dx)^2 + 3*(dy)^2 from sample k to the center of its
\* rounded (offset) and of its floored (base) candidate, times (2*DX)^2:
\* <<n, e>> for n + e*eps
ClaimXn2(k) == 2 * (PlanarOf(k)[1] - ret.xmin) * args.nx
ClaimYn2(k) == 2 * (PlanarOf(k)[2][1] - ret.ymin[1]) * args.nx
ClaimYe2(k) == 2 * (PlanarOf(k)[2][2] - ret.ymin[2]) * args.nx
ClaimDX == ret.xmax - ret.xmin
DistOffset(k) ==
    << Sq(ClaimXn2(k) - 2 * ClaimDX * ret.ix1[k])
         + 3 * Sq(ClaimYn2(k) - 2 * ClaimDX * ret.iy1[k]),
       6 * (ClaimYn2(k) - 2 * ClaimDX * ret.iy1[k]) * ClaimYe2(k) >>
DistBase(k) ==
    << Sq(ClaimXn2(k) - ClaimDX * (2 * ret.ix2[k] + 1))
         + 3 * Sq(ClaimYn2(k) - ClaimDX * (2 * ret.iy2[k] + 1)),
       6 * (ClaimYn2(k) - ClaimDX * (2 * ret.iy2[k] + 1)) * ClaimYe2(k) >>
OffsetCandidate(k) == <<1, ret.ix1[k], ret.iy1[k]>>
BaseCandidate(k) == <<2, ret.ix2[k], ret.iy2[k]>>
\* sample k is counted in cell c and in no other of the cells
CountedOnlyIn(k, c, cells) == \A cell \in cells : IsMember(ret, cell, k) <=> cell = c
CountedNowhere(k, cells) == \A cell \in cells : ~IsMember(ret, cell, k)

\* C2 as stated: the nearer candidate gets the sample, and the offset
\* candidate gets it when the two distances are equal (candidates that lie
\* inside their lattice array).
OffsetWinsTies(cells) ==
    \A k \in 1..Len(args.lat) :
      LET c == IF ~DLess(DistBase(k), DistOffset(k)) THEN OffsetCandidate(k)
               ELSE BaseCandidate(k)
      IN  c \in cells => IsMember(ret, c, k)
C2_OffsetWinsTies ==
    (Returned /\ AtLeast(ret, "accumulate")) => OffsetWinsTies(CellSet(ret, args.nx))

\* C2 (amended): in count mode and in value mode, a sample goes to the
\* candidate with the strictly smaller d and to the base (floored) candidate
\* when the two distances are equal; it is counted in that cell and in no
\* other, and it is counted nowhere when that cell lies outside its array.
BaseWinsTies(cells) ==
    \A k \in 1..Len(args.lat) :
      LET c == IF DLess(DistOffset(k), DistBase(k)) THEN OffsetCandidate(k)
               ELSE BaseCandidate(k)
      IN  IF c \in cells THEN CountedOnlyIn(k, c, cells)
          ELSE CountedNowhere(k, cells)
C2_BaseWinsTies ==
    (Returned /\ AtLeast(ret, "accumulate")) => BaseWinsTies(CellSet(ret, args.nx))

\* a value-mode call in which a sample at equal distances from its two
\* candidates was collected in the base cell
C2_Witness ==
    /\ Returned /\ AtLeast(ret, "accumulate") /\ args.color # None
    /\ \E k \in 1..Len(args.lat) :
         /\ DistOffset(k) = DistBase(k)
         /\ OffsetCandidate(k) \in CellSet(ret, args.nx)
         /\ BaseCandidate(k) \in CellSet(ret, args.nx)
         /\ IsMember(ret, BaseCandidate(k), k)

\* ---------------------------------------------------------------- C3
ColorsOf(cell) ==
    [j \in 1..Len(MembersOf(ret, cell)) |-> args.color[1][MembersOf(ret, cell)[j]]]
CountOf(cell) == Len(MembersOf(ret, cell))
\* min_count as value mode reads it: unset is 0
ValueThreshold == IF args.min_count = None THEN <<0, 1>> ELSE args.min_count[1]
\* count mode with an explicit min_count: dropped exactly when the count is
\* strictly below min_count, else kept with its count as aggregate
CountThresholdHolds ==
    (args.color = None /\ args.min_count # None)
    => \A k \in 1..Len(ret.good_idxs) :
         LET cell == CellAt(ret, args.nx, k)
         IN  /\ ret.good_idxs[k] <=> ~FloatLess(<<CountOf(cell), 1>>, args.min_count[1])
             /\ ret.good_idxs[k] => ret.accum[k] = <<CountOf(cell), 1>>

\* C3 as stated: count mode drops exactly the counts strictly below an
\* explicit min_count; value mode keeps a cell, with aggregate
\* agg_func(values), exactly when its number of values strictly exceeds
\* min_count (unset: 0).
C3_Thresholds ==
    (Returned /\ AtLeast(ret, "accumulate"))
    => /\ CountThresholdHolds
       /\ args.color # None
          => \A k \in 1..Len(ret.good_idxs) :
               LET cell == CellAt(ret, args.nx, k)
               IN  /\ ret.good_idxs[k]
                        <=> FloatLess(ValueThreshold, <<CountOf(cell), 1>>)
                   /\ ret.good_idxs[k]
                        => ret.accum[k] = AggFunc(args.agg_func, ColorsOf(cell))

\* C3 (amended): count mode drops exactly the counts strictly below an
\* explicit min_count and keeps the others with their count; value mode keeps
\* a cell, with aggregate agg_func(values), exactly when its number of values
\* strictly exceeds min_count (unset: 0) and agg_func(values) is not NaN.
C3_ThresholdsAndNaN ==
    (Returned /\ AtLeast(ret, "accumulate"))
    => /\ CountThresholdHolds
       /\ args.color # None
          => \A k \in 1..Len(ret.good_idxs) :
               LET cell == CellAt(ret, args.nx, k)
               IN  /\ ret.good_idxs[k]
                        <=> /\ FloatLess(ValueThreshold, <<CountOf(cell), 1>>)
                            /\ ~IsNaN(AggFunc(args.agg_func, ColorsOf(cell)))
                   /\ ret.good_idxs[k]
                        => ret.accum[k] = AggFunc(args.agg_func, ColorsOf(cell))

\* a value-mode call with min_count >= 1 in which a cell holding exactly
\* min_count values was dropped and a cell holding more was kept
C3_Witness ==
    /\ Returned /\ AtLeast(ret, "accumulate")
    /\ args.color # None /\ args.min_count # None
    /\ FloatLess(<<0, 1>>, args.min_count[1])
    /\ \E k \in 1..Len(ret.good_idxs) :
         /\ <<CountOf(CellAt(ret, args.nx, k)), 1>> = args.min_count[1]
         /\ ~ret.good_idxs[k]
    /\ \E k \in 1..Len(ret.good_idxs) :
         /\ FloatLess(args.min_count[1], <<CountOf(CellAt(ret, args.nx, k)), 1>>)
         /\ ret.good_idxs[k]

\* ---------------------------------------------------------------- C4
\* the lattice density a call worked with, read off its offset lattice
GridOf(r) == Cardinality({c \in DOMAIN r.lattice1 : c[2] = 0}) - 1
\* the cells behind the bins a call emitted
EmittedCells(r) ==
    {CellAt(r, GridOf(r), k) : k \in {j \in 1..Len(r.good_idxs) : r.good_idxs[j]}}
\* the calls of _compute_hexbin that hexbin_mapbox made and that got as far
\* as filtering their cells
GroupCalls == {g \in 1..Len(ret.groups) : AtLeast(ret.groups[g].ret, "accumulate")}

\* C4 as stated: in the geometry pass and in every group's pass, each emitted
\* bin is a cell that received at least one sample.
C4_NoEmptyBins ==
    Returned
    => /\ AtLeast(ret.geometry, "accumulate")
          => \A cell \in EmittedCells(ret.geometry) :
               MembersOf(ret.geometry, cell) # <<>>
       /\ \A g \in GroupCalls :
            \A cell \in EmittedCells(ret.groups[g].ret) :
              MembersOf(ret.groups[g].ret, cell) # <<>>

\* C4 (amended): a pass with values (a group's pass when a color is given)
\* emits only cells that received at least one sample; a pass without values
\* (the geometry pass, and a group's pass when no color is given) emits every
\* cell of both lattices, the cells without samples included.
C4_EmptyBinsWithoutValues ==
    Returned
    => /\ AtLeast(ret.geometry, "accumulate")
          => EmittedCells(ret.geometry) = CellSet(ret.geometry, GridOf(ret.geometry))
       /\ \A g \in GroupCalls :
            IF args.color
              THEN \A cell \in EmittedCells(ret.groups[g].ret) :
                     MembersOf(ret.groups[g].ret, cell) # <<>>
              ELSE EmittedCells(ret.groups[g].ret)
                     = CellSet(ret.groups[g].ret, GridOf(ret.groups[g].ret))

\* a figure with a color whose geometry pass emitted a cell without samples
\* and whose group left a cell without samples out
C4_Witness ==
    /\ Returned /\ ret.status = "ok" /\ args.color
    /\ \E cell \in EmittedCells(ret.geometry) : MembersOf(ret.geometry, cell) = <<>>
    /\ \E g \in GroupCalls :
         /\ EmittedCells(ret.groups[g].ret) # {}
         /\ \E cell \in CellSet(ret.groups[g].ret, GridOf(ret.groups[g].ret)) :
              /\ MembersOf(ret.groups[g].ret, cell) = <<>>
              /\ cell \notin EmittedCells(ret.groups[g].ret)

\* ---------------------------------------------------------------- C5
\* C5: a call in which no cell survives filtering returns an empty bin set
\* and does not end in an error.
C5_EmptyResultIsValid ==
    (Returned /\ AtLeast(ret, "accumulate") /\ ret.agreggated_value = <<>>)
    => /\ ret.status = "ok"
       /\ ret.hexagons_ids = <<>> /\ ret.hxs = <<>> /\ ret.hys = <<>>

\* ---------------------------------------------------------------- C6
\* C6: a call with nx <= 0 ends in an error raised before any lattice step,
\* grid extent or accumulation array is computed.
C6_FailFast ==
    (Returned /\ args.nx <= 0)
    => /\ ret.status \notin {"ok", "none"}
       /\ ret.reached = "none"

\* ---------------------------------------------------------------- C7
\* the rows of the consolidated table that belong to group g
TableRows(g) == SelectSeq(ret.agg_data_frame, LAMBDA row : row.frame = ret.groups[g].frame)
\* the number of cells kept among the first k
Rank(good_idxs, k) == Cardinality({j \in 1..k : good_idxs[j]})
FeatureIds == {ret.geojson.features[f].id : f \in 1..Len(ret.geojson.features)}

\* C7: (a) a cell that is non-empty in two groups has the same region id in
\* the rows of both groups, and (b) every region id of the consolidated table
\* is the id of a feature of the geometry pass's polygon collection.
C7_SharedIdSpace ==
    (Returned /\ ret.status = "ok")
    => /\ \A g \in 1..Len(ret.groups), h \in 1..Len(ret.groups) :
            LET rg == ret.groups[g].ret
                rh == ret.groups[h].ret
            IN  \A k \in 1..Len(rg.good_idxs) :
                  (/\ rg.good_idxs[k]
                   /\ MembersOf(rg, CellAt(rg, GridOf(rg), k)) # <<>>)
                  => \A l \in 1..Len(rh.good_idxs) :
                       (/\ rh.good_idxs[l]
                        /\ CellAt(rg, GridOf(rg), k) = CellAt(rh, GridOf(rh), l)
                        /\ MembersOf(rh, CellAt(rh, GridOf(rh), l)) # <<>>)
                       => TableRows(g)[Rank(rg.good_idxs, k)].locations
                            = TableRows(h)[Rank(rh.good_idxs, l)].locations
       /\ \A q \in 1..Len(ret.agg_data_frame) :
            ret.agg_data_frame[q].locations \in FeatureIds

\* a figure of two groups with a color in which one cell holds samples of
\* both groups
C7_Witness ==
    /\ Returned /\ ret.status = "ok" /\ args.color /\ Len(ret.groups) = 2
    /\ \E cell \in EmittedCells(ret.groups[1].ret) \cap EmittedCells(ret.groups[2].ret) :
         /\ MembersOf(ret.groups[1].ret, cell) # <<>>
         /\ MembersOf(ret.groups[2].ret, cell) # <<>>
    /\ EmittedCells(ret.groups[1].ret) # EmittedCells(ret.groups[2].ret)

\* ---------------------------------------------------------------- C8
RatDiff(a, b) == Rat(a[1] * b[2] - b[1] * a[2], a[2] * b[2])
\* the distinct differences between consecutive sorted coordinates of the
\* surviving centers along axis ax (1: x, 2: y)
\* (the y of the centers of a call share their eps part, which cancels)
CenterCoord(h, ax) ==
    IF ax = 1 THEN ret.centers[h][1]
    ELSE IF ret.centers[h][2][3] = 0 THEN NaN
    ELSE Rat(ret.centers[h][2][1], ret.centers[h][2][3])
CenterCoords(ax) == {CenterCoord(h, ax) : h \in 1..Len(ret.centers)}
\* the pairs of consecutive distinct coordinates of the set cs
ConsecutivePairs(cs) ==
    {q \in cs \X cs :
       /\ FloatLess(q[1], q[2])
       /\ ~\E v \in cs : FloatLess(q[1], v) /\ FloatLess(v, q[2])}
StepPairs(ax) == ConsecutivePairs(CenterCoords(ax))
DiffsOf(cs, pairs) ==
    {RatDiff(q[2], q[1]) : q \in pairs}
    \cup (IF Cardinality(cs) < Len(ret.centers) THEN {<<0, 1>>} ELSE {})
CenterDiffs(ax) == DiffsOf(CenterCoords(ax), StepPairs(ax))
\* v is the least of the differences ds, is not zero and occurs more than
\* once among the differences of the consecutive coordinates
LeastTwiceIn(v, ds, pairs) ==
    /\ v \in ds /\ v # <<0, 1>>
    /\ \A w \in ds : ~FloatLess(w, v)
    /\ Cardinality({q \in pairs : RatDiff(q[2], q[1]) = v}) >= 2
LeastTwice(v, ax) == LeastTwiceIn(v, CenterDiffs(ax), StepPairs(ax))
PositiveDiffs(ax) == CenterDiffs(ax) \ {<<0, 1>>}
\* v is the second smallest element of the set ds
IsSecondSmallest(v, ds) ==
    /\ v \in ds
    /\ Cardinality({w \in ds : FloatLess(w, v)}) = 1

\* C8 as stated: the spacing of an axis is the second smallest of the
\* distinct strictly positive differences, and the call ends in an error
\* when an axis has fewer than 2 of them.
SecondSmallestPositive(px, py) ==
    /\ ret.status = "ok"
       => /\ IsSecondSmallest(ret.dxh[1], px)
          /\ IsSecondSmallest(ret.dyh[1], py)
    /\ ret.status # "ok" <=> (Cardinality(px) < 2 \/ Cardinality(py) < 2)
C8_SecondSmallestPositive ==
    (Returned /\ AtLeast(ret, "centers"))
    => SecondSmallestPositive(PositiveDiffs(1), PositiveDiffs(2))

\* C8 (amended): the spacing of an axis is the second smallest of the
\* distinct differences between consecutive sorted coordinates of the
\* surviving centers, the zero difference of repeated coordinates included;
\* hex_width is twice the x spacing; the call ends in an error when an axis
\* has fewer than 2 distinct differences, zero included, and only then.  The
\* differences are distinct as floats: along y, where the coordinates are
\* rounded, a least difference that is not zero and occurs more than once
\* may count twice, and is then the spacing.
SecondSmallestDifference(dx, dy, ypairs) ==
    /\ ret.status = "ok"
       => /\ IsSecondSmallest(ret.dxh[1], dx)
          /\ \/ IsSecondSmallest(ret.dyh[1], dy)
             \/ LeastTwiceIn(ret.dyh[1], dy, ypairs)
          /\ ret.hex_nx[1] = Rat(2 * ret.dxh[1][1], ret.dxh[1][2])
    /\ ret.status # "ok" => (Cardinality(dx) < 2 \/ Cardinality(dy) < 2)
    /\ Cardinality(dx) < 2 => ret.status # "ok"
    /\ (Cardinality(dy) < 2 /\ ~\E v \in dy : LeastTwiceIn(v, dy, ypairs))
       => ret.status # "ok"
C8_SecondSmallestDifference ==
    (Returned /\ AtLeast(ret, "centers"))
    => SecondSmallestDifference(CenterDiffs(1), CenterDiffs(2), StepPairs(2))

\* a successful call whose centers repeat an x-coordinate, so that zero ranks
\* first and the spacing is the smallest positive difference
C8_Witness ==
    /\ Returned /\ ret.status = "ok"
    /\ <<0, 1>> \in CenterDiffs(1)
    /\ IsSecondSmallest(ret.dxh[1], CenterDiffs(1))
    /\ \A w \in PositiveDiffs(1) : ~FloatLess(w, ret.dxh[1])

\* ---------------------------------------------------------------- C9
\* the center of a cell: (i*dx + xmin, j*dy + ymin) for the offset lattice,
\* ((i + 0.5)*dx + xmin, (j + 0.5)*dy + ymin) for the base lattice, with
\* dx = (xmax - xmin)/nx and dy = dx*sqrt(3), which is dx in the unit of y
CenterOf(cell) ==
    IF cell[1] = 1
      THEN <<Rat(cell[2] * (ret.xmax - ret.xmin) + args.nx * ret.xmin, args.nx),
             Dual(cell[3] * (ret.xmax - ret.xmin) + args.nx * ret.ymin[1],
                  args.nx * ret.ymin[2], args.nx)>>
      ELSE <<Rat((2 * cell[2] + 1) * (ret.xmax - ret.xmin) + 2 * args.nx * ret.xmin,
                 2 * args.nx),
             Dual((2 * cell[3] + 1) * (ret.xmax - ret.xmin) + 2 * args.nx * ret.ymin[1],
                  2 * args.nx * ret.ymin[2], 2 * args.nx)>>
\* what the samples of a cell produce: their count, or agg_func of their values
ProducedBy(cell) ==
    IF args.color = None THEN <<CountOf(cell), 1>>
    ELSE AggFunc(args.agg_func, ColorsOf(cell))

\* C9: every emitted bin carries the aggregate produced by the samples of the
\* cell at whose center it is reported, its id is that center and its polygon
\* is centred on it.
CenterAggregatePairing(cells) ==
    /\ Len(ret.centers) = Len(ret.agreggated_value)
    /\ Len(ret.hexagons_ids) = Len(ret.agreggated_value)
    /\ \A h \in 1..Len(ret.agreggated_value) :
         /\ \E cell \in cells :
              /\ CenterOf(cell) = ret.centers[h]
              /\ ProducedBy(cell) = ret.agreggated_value[h]
         /\ ret.hexagons_ids[h] = ret.centers[h]
         /\ ret.hxs[h][1][1] * ret.centers[h][1][2]
              = ret.centers[h][1][1] * ret.hxs[h][1][2]
C9_CenterAggregatePairing ==
    (Returned /\ ret.status = "ok") => CenterAggregatePairing(CellSet(ret, args.nx))

\* a value-mode call that dropped a cell lying before a kept one and emitted
\* bins with different aggregates
C9_Witness ==
    /\ Returned /\ ret.status = "ok" /\ args.color # None
    /\ \E k \in 1..Len(ret.good_idxs), l \in 1..Len(ret.good_idxs) :
         k < l /\ ~ret.good_idxs[k] /\ ret.good_idxs[l]
    /\ \E h \in 1..Len(ret.agreggated_value) :
         ret.agreggated_value[h] # ret.agreggated_value[1]

\* ---------------------------------------------------------------- C10
\* C10: with a color, once the geometry pass has succeeded, the pass of a
\* group with at least one surviving bin does not end in an error.
C10_GroupPassNeverFails ==
    (Returned /\ args.color /\ ret.geometry.status = "ok")
    => \A g \in GroupCalls :
         Len(ret.groups[g].ret.agreggated_value) >= 1
         => ret.groups[g].ret.status = "ok"

====
